---------------------------- MODULE Spec2Model ----------------------------
(***************************************************************************)
(* Model of src/utils/index.js: the post-scaffolding helper complete(),    *)
(* which sorts the dependencies of package.json, optionally installs the   *)
(* dependencies and runs the lint fix in child processes, and prints the   *)
(* closing instructions.                                                   *)
(*                                                                         *)
(* Strings whose characters matter (the package names that sortObject      *)
(* orders) are sequences of UTF-16 code units; the other strings are       *)
(* opaque.  A JavaScript object is the sequence of its own properties in   *)
(* the engine's own-property order; a JSON text is the sequence of its     *)
(* members in the order they are written.                                  *)
(***************************************************************************)
EXTENDS Integers, Sequences, FiniteSets, TLC

(* ------------------------------ bounds -------------------------------- *)

\* Largest number of entries of "dependencies" and "devDependencies"
\* together in the manifests explored.
MaxEntries == 2

\* Children exit with a code in 0..MaxExitCode, or are killed by a signal.
MaxExitCode == 2

(* ------------------------------ inputs -------------------------------- *)

\* Package names, as UTF-16 code units: "12", "2", "vue".
PackageNames == { <<49, 50>>, <<50>>, <<118, 117, 101>> }

\* Version specifiers (opaque values of the dependency mappings).
Versions == { "^1.0.0", "^2.0.0" }

\* data.autoInstall: the installer's executable, or "" (falsy) for none.
Installers == { "", "npm", "yarn" }

\* data.lintConfig as the questionnaire may give it.
LintConfigs == { "prettier", "standard", "airbnb", "webpack" }

(* ------------------------- src/utils/index.js ------------------------- *)

\* const lintStyles = ['prettier', 'standard', 'airbnb']
lintStyles == << "prettier", "standard", "airbnb" >>

\* lintStyles.indexOf(x), -1 when x is no element.
IndexOf(arr, x) ==
  IF \E i \in 1..Len(arr) : arr[i] = x
  THEN (CHOOSE i \in 1..Len(arr) : arr[i] = x /\ \A j \in 1..(i - 1) : arr[j] # x) - 1
  ELSE -1

\* JavaScript truthiness of a string: only '' is falsy.
Truthy(s) == s # ""

(* ----------------------- JavaScript objects --------------------------- *)

IsDigit(c) == c >= 48 /\ c <= 57

\* a < b for strings: comparison by code units, as Array.prototype.sort
\* compares its elements when no comparator is given.
LexLess(a, b) ==
  \/ /\ Len(a) < Len(b)
     /\ \A i \in 1..Len(a) : a[i] = b[i]
  \/ \E i \in 1..Len(a) :
       /\ i <= Len(b)
       /\ a[i] < b[i]
       /\ \A j \in 1..(i - 1) : a[j] = b[j]

\* The digits of 2^32 - 1.
MaxArrayLength == << 52, 50, 57, 52, 57, 54, 55, 50, 57, 53 >>

\* a < b for the numbers two canonical strings of digits denote.
NumLess(a, b) == Len(a) < Len(b) \/ (Len(a) = Len(b) /\ LexLess(a, b))

\* An array index: a canonical numeric string below 2^32 - 1.  The engine
\* lists these properties first, in numeric order.
IsArrayIndex(k) ==
  /\ Len(k) > 0
  /\ \A i \in 1..Len(k) : IsDigit(k[i])
  /\ (Len(k) = 1 \/ k[1] # 48)
  /\ NumLess(k, MaxArrayLength)

ObjectKeys(obj) == [i \in 1..Len(obj) |-> obj[i].key]

HasKey(obj, k) == \E i \in 1..Len(obj) : obj[i].key = k

\* obj[k]
ObjGet(obj, k) == obj[CHOOSE i \in 1..Len(obj) : obj[i].key = k].value

\* Where a new property k goes in the own-property order of obj: an array
\* index goes among the array indices, by number; any other name goes last.
InsertAt(obj, k) ==
  IF IsArrayIndex(k)
  THEN Cardinality({ i \in 1..Len(obj) :
                       IsArrayIndex(obj[i].key) /\ NumLess(obj[i].key, k) }) + 1
  ELSE Len(obj) + 1

\* obj[k] = v
ObjSet(obj, k, v) ==
  IF HasKey(obj, k)
  THEN [i \in 1..Len(obj) |-> IF obj[i].key = k THEN [key |-> k, value |-> v] ELSE obj[i]]
  ELSE LET p == InsertAt(obj, k)
       IN  SubSeq(obj, 1, p - 1) \o << [key |-> k, value |-> v] >> \o SubSeq(obj, p, Len(obj))

RECURSIVE ParseMembers(_)
\* JSON.parse of the members of a JSON object, in the order of the text.
ParseMembers(text) ==
  IF text = << >> THEN << >>
  ELSE LET last == text[Len(text)]
       IN  ObjSet(ParseMembers(SubSeq(text, 1, Len(text) - 1)), last.key, last.value)

\* JSON.stringify of an object: its own properties in own-property order.
StringifyMembers(obj) == obj

RECURSIVE Sort(_)
\* Array.prototype.sort() with no comparator, on an array of strings.
Sort(keys) ==
  IF keys = << >> THEN << >>
  ELSE LET rest == Sort(SubSeq(keys, 1, Len(keys) - 1))
           x    == keys[Len(keys)]
           n    == Cardinality({ i \in 1..Len(rest) : ~ LexLess(x, rest[i]) })
       IN  SubSeq(rest, 1, n) \o << x >> \o SubSeq(rest, n + 1, Len(rest))

RECURSIVE AssignAll(_, _, _)
\* keys.forEach(item => { sortedObject[item] = object[item] })
AssignAll(sortedObject, keys, object) ==
  IF keys = << >> THEN sortedObject
  ELSE AssignAll(ObjSet(sortedObject, Head(keys), ObjGet(object, Head(keys))),
                 Tail(keys), object)

sortObject(object) == AssignAll(<< >>, Sort(ObjectKeys(object)), object)


(* --------------------------- the manifest ----------------------------- *)

\* The members of a JSON object of at most n entries with distinct names.
MemberLists(n) ==
  UNION { { s \in [1..m -> [key : PackageNames, value : Versions]] :
              \A i, j \in 1..m : s[i].key = s[j].key => i = j } : m \in 0..n }

\* A field of the manifest that is not there.
Absent == [present |-> FALSE, members |-> << >>]

Fields(n) == { Absent } \cup { [present |-> TRUE, members |-> s] : s \in MemberLists(n) }

\* package.json is missing or is not valid JSON.
UnreadableFile ==
  [readable |-> FALSE, name |-> "", dependencies |-> Absent, devDependencies |-> Absent]

\* The package.json files explored.
ManifestFiles ==
  { UnreadableFile } \cup
  { f \in [readable : { TRUE }, name : { "quasar-app" },
           dependencies : Fields(MaxEntries), devDependencies : Fields(MaxEntries)] :
      Len(f.dependencies.members) + Len(f.devDependencies.members) <= MaxEntries }

\* JSON.parse(fs.readFileSync(pkgFile)), for a readable file.
ParsePkg(f) ==
  [name |-> f.name,
   dependencies |-> [present |-> f.dependencies.present,
                     members |-> ParseMembers(f.dependencies.members)],
   devDependencies |-> [present |-> f.devDependencies.present,
                        members |-> ParseMembers(f.devDependencies.members)]]

\* JSON.stringify(pkg, null, 2) + '\n', as the file it makes.
StringifyPkg(pkg) ==
  [readable |-> TRUE,
   name |-> pkg.name,
   dependencies |-> [present |-> pkg.dependencies.present,
                     members |-> StringifyMembers(pkg.dependencies.members)],
   devDependencies |-> [present |-> pkg.devDependencies.present,
                        members |-> StringifyMembers(pkg.devDependencies.members)]]

\* if (pkg.x) { pkg.x = sortObject(pkg.x) }
SortField(fld) ==
  IF fld.present THEN [present |-> TRUE, members |-> sortObject(fld.members)] ELSE fld

\* pkg after the two conditional assignments of sortDependencies.
SortedPkg(pkg) ==
  [name |-> pkg.name,
   dependencies |-> SortField(pkg.dependencies),
   devDependencies |-> SortField(pkg.devDependencies)]

\* A sortDependencies that writes only when the order of some keys changes.
SortedFlagIfReordered(pkg) ==
  \/ pkg.dependencies.present
       /\ ObjectKeys(sortObject(pkg.dependencies.members)) # ObjectKeys(pkg.dependencies.members)
  \/ pkg.devDependencies.present
       /\ ObjectKeys(sortObject(pkg.devDependencies.members))
            # ObjectKeys(pkg.devDependencies.members)

\* The flag "sorted" of sortDependencies when it reaches the write.
SortedFlag(pkg) == pkg.dependencies.present \/ pkg.devDependencies.present

\* The file sortDependencies leaves behind, for a readable file f.
FileAfterSort(f) ==
  IF SortedFlag(ParsePkg(f)) THEN StringifyPkg(SortedPkg(ParsePkg(f))) ELSE f

(* ---------------------------- the messages ---------------------------- *)

\* An installMsg that gives the reminder whatever the configuration is.
installMsgAlways(d) == "npm install (or if using yarn: yarn)\n  "

installMsg(d) ==
  IF ~ Truthy(d.autoInstall) THEN "npm install (or if using yarn: yarn)\n  " ELSE ""

lintMsg(d) ==
  IF ~ Truthy(d.autoInstall) /\ d.lint /\ IndexOf(lintStyles, d.lintConfig) # -1
  THEN "npm run lint -- --fix (or for yarn: yarn run lint --fix)\n  "
  ELSE ""

\* The text printMessage prints: the parts that depend on data.
FinalMessage(d) == [tag |-> "final", install |-> installMsg(d), lint |-> lintMsg(d)]

starredLog(message) == [tag |-> "starred", text |-> message]

BlankLine == [tag |-> "line", text |-> ""]

InstallFailedLine(executable) == [tag |-> "install FAILED", cmd |-> executable]

LintFailedLine(executable) == [tag |-> "lint FAILED", cmd |-> executable]

TryAgainLine == [tag |-> "line", text |-> " Please try again later..."]

\* console.log(chalk.red('Error:'), e)
ErrorLine == [tag |-> "Error:"]

(* ------------------------- child processes ---------------------------- *)

\* What the 'exit' event of a child carries: the exit code, or null for a
\* child that a signal has killed.
ExitEvents ==
  { [kind |-> "code", code |-> c] : c \in 0..MaxExitCode } \cup { [kind |-> "signal"] }

NoEvent == [kind |-> "none"]

\* if (code): null and 0 are falsy.
TruthyCode(ev) == ev.kind = "code" /\ ev.code # 0

Pending == [state |-> "pending"]

\* runCommand(cmd, args, options): the child it spawns and the promise it
\* returns.
runCommand(cmd, args) ==
  [cmd |-> cmd, args |-> args, state |-> "running", event |-> NoEvent,
   promise |-> Pending, settles |-> 0]

\* The 'exit' listener of runCommand.
OnExit(call, ev) ==
  [call EXCEPT !.state = "exited",
               !.event = ev,
               !.promise = IF TruthyCode(ev)
                           THEN [state |-> "rejected", reason |-> ev.code]
                           ELSE [state |-> "fulfilled"],
               !.settles = @ + 1]

\* The arguments of the lint fix.
LintArgs(d) ==
  IF d.autoInstall = "npm" THEN << "run", "lint", "--", "--fix" >>
  ELSE << "run", "lint", "--fix" >>

\* The condition under which runLintFix runs the lint fix.
LintSelected(d) == d.preset.lint /\ IndexOf(lintStyles, d.lintConfig) # -1

(* ------------------------------ state --------------------------------- *)

VARIABLES
  data,        \* the questionnaire's answers
  file,        \* package.json
  file0,       \* package.json as complete() found it
  writes,      \* the number of fs.writeFileSync calls
  pc,          \* where complete() is
  calls,       \* the runCommand calls, in order
  out,         \* what console.log has printed
  process,     \* the host process
  completion   \* the promise complete() returns

vars == << data, file, file0, writes, pc, calls, out, process, completion >>

Configs ==
  [autoInstall : Installers, lintConfig : LintConfigs,
   preset : [lint : BOOLEAN], lint : BOOLEAN]

Init ==
  /\ data \in Configs
  /\ file \in ManifestFiles
  /\ file0 = file
  /\ writes = 0
  /\ pc = "start"
  /\ calls = << >>
  /\ out = << >>
  /\ process = [exited |-> FALSE, status |-> 0]
  /\ completion = "pending"

\* A complete() whose try block holds the call of sortDependencies: the
\* catch prints the error and complete() goes on to printMessage.
SortDependenciesInTry ==
  /\ pc = "start"
  /\ \/ /\ ~ file.readable
        /\ out' = Append(out, ErrorLine)
        /\ pc' = "print"
        /\ UNCHANGED << file, writes >>
     \/ /\ file.readable
        /\ file' = FileAfterSort(file)
        /\ writes' = IF SortedFlag(ParsePkg(file)) THEN writes + 1 ELSE writes
        /\ pc' = "try"
        /\ UNCHANGED out
  /\ UNCHANGED << data, file0, calls, process, completion >>

\* sortDependencies(data, green), called before the try block of complete():
\* an exception leaves complete() at once.
SortDependencies ==
  /\ pc = "start"
  /\ \/ /\ ~ file.readable
        /\ pc' = "thrown"
        /\ completion' = "rejected"
        /\ UNCHANGED << file, writes >>
     \/ /\ file.readable
        /\ file' = FileAfterSort(file)
        /\ writes' = IF SortedFlag(ParsePkg(file)) THEN writes + 1 ELSE writes
        /\ pc' = "try"
        /\ UNCHANGED completion
  /\ UNCHANGED << data, file0, calls, out, process >>

\* if (data.autoInstall) is false: the try block does nothing.
SkipInstall ==
  /\ pc = "try"
  /\ ~ Truthy(data.autoInstall)
  /\ pc' = "print"
  /\ UNCHANGED << data, file, file0, writes, calls, out, process, completion >>

\* A complete() that installs without looking at data.autoInstall, with the
\* default executable of installDependencies when there is none.
InstallDependenciesUnguarded ==
  /\ pc = "try"
  /\ out' = Append(out, starredLog("Installing project dependencies..."))
  /\ calls' = Append(calls,
                runCommand(IF Truthy(data.autoInstall) THEN data.autoInstall ELSE "npm",
                           << "install" >>))
  /\ pc' = "await_install"
  /\ UNCHANGED << data, file, file0, writes, process, completion >>

\* installDependencies up to its await.
InstallDependencies ==
  /\ pc = "try"
  /\ Truthy(data.autoInstall)
  /\ out' = Append(out, starredLog("Installing project dependencies..."))
  /\ calls' = Append(calls, runCommand(data.autoInstall, << "install" >>))
  /\ pc' = "await_install"
  /\ UNCHANGED << data, file, file0, writes, process, completion >>

\* A child terminates and the 'exit' listener of its runCommand runs.
ChildExit ==
  /\ ~ process.exited
  /\ \E i \in 1..Len(calls) : \E ev \in ExitEvents :
       /\ calls[i].state = "running"
       /\ calls' = [calls EXCEPT ![i] = OnExit(calls[i], ev)]
  /\ UNCHANGED << data, file, file0, writes, pc, out, process, completion >>

\* An installDependencies whose catch prints and returns.
InstallResumeNoExit ==
  /\ pc = "await_install"
  /\ calls[Len(calls)].promise.state # "pending"
  /\ IF calls[Len(calls)].promise.state = "rejected"
     THEN out' = out \o << BlankLine, InstallFailedLine(data.autoInstall),
                           TryAgainLine, BlankLine >>
     ELSE UNCHANGED out
  /\ pc' = "lint"
  /\ UNCHANGED << data, file, file0, writes, calls, process, completion >>

\* installDependencies after its await: the catch ends the process.
InstallResume ==
  /\ pc = "await_install"
  /\ calls[Len(calls)].promise.state # "pending"
  /\ IF calls[Len(calls)].promise.state = "rejected"
     THEN /\ out' = out \o << BlankLine, InstallFailedLine(data.autoInstall),
                              TryAgainLine, BlankLine >>
          /\ process' = [exited |-> TRUE, status |-> 1]
          /\ pc' = "exited"
     ELSE /\ pc' = "lint"
          /\ UNCHANGED << out, process >>
  /\ UNCHANGED << data, file, file0, writes, calls, completion >>

\* runLintFix up to its await, or to its end when no lint fix is to run.
RunLintFix ==
  /\ pc = "lint"
  /\ IF LintSelected(data)
     THEN /\ out' = Append(out,
                starredLog("Running eslint --fix to comply with chosen preset rules..."))
          /\ calls' = Append(calls, runCommand(data.autoInstall, LintArgs(data)))
          /\ pc' = "await_lint"
     ELSE /\ pc' = "print"
          /\ UNCHANGED << out, calls >>
  /\ UNCHANGED << data, file, file0, writes, process, completion >>

\* A runLintFix whose catch ends the process, as that of installDependencies.
LintResumeFatal ==
  /\ pc = "await_lint"
  /\ calls[Len(calls)].promise.state # "pending"
  /\ IF calls[Len(calls)].promise.state = "rejected"
     THEN /\ out' = out \o << BlankLine, LintFailedLine(data.autoInstall),
                              TryAgainLine, BlankLine >>
          /\ process' = [exited |-> TRUE, status |-> 1]
          /\ pc' = "exited"
     ELSE /\ pc' = "print"
          /\ UNCHANGED << out, process >>
  /\ UNCHANGED << data, file, file0, writes, calls, completion >>

\* runLintFix after its await: the catch prints and goes on.
LintResume ==
  /\ pc = "await_lint"
  /\ calls[Len(calls)].promise.state # "pending"
  /\ IF calls[Len(calls)].promise.state = "rejected"
     THEN out' = out \o << BlankLine, LintFailedLine(data.autoInstall),
                           TryAgainLine, BlankLine >>
     ELSE UNCHANGED out
  /\ pc' = "print"
  /\ UNCHANGED << data, file, file0, writes, calls, process, completion >>

\* printMessage(data, chalk), and complete() returns.
PrintMessage ==
  /\ pc = "print"
  /\ out' = Append(out, FinalMessage(data))
  /\ pc' = "done"
  /\ completion' = "fulfilled"
  /\ UNCHANGED << data, file, file0, writes, calls, process >>

\* The steps of complete() after sortDependencies, and of its children.
AfterSort ==
  \/ SkipInstall
  \/ InstallDependencies
  \/ ChildExit
  \/ InstallResume
  \/ RunLintFix
  \/ LintResume
  \/ PrintMessage

Next == SortDependencies \/ AfterSort

Spec == Init /\ [][Next]_vars

(* ------------------------------ claims -------------------------------- *)

\* The number of lines of the output with this tag.
Count(tag) == Cardinality({ i \in 1..Len(out) : out[i].tag = tag })

\* The final instructional messages printed so far.
Finals == { out[i] : i \in { j \in 1..Len(out) : out[j].tag = "final" } }

\* complete() has nothing left to run.
Finished == pc \in { "thrown", "exited", "done" }

ExitedZero(call) == call.event = [kind |-> "code", code |-> 0]

ExitedNonZero(call) == call.event.kind = "code" /\ call.event.code # 0

\* The configuration's lint style is one of prettier, standard, airbnb.
RecognizedStyle == data.lintConfig \in { "prettier", "standard", "airbnb" }

\* C1, as the claim states it: when the manifest is missing or is not valid
\* JSON, the error of sortDependencies is caught once by the outer handler of
\* complete() and printed as an "Error:" line, the final message is printed
\* and complete() finishes normally.
C1_CaughtAndReported ==
  (~ file0.readable /\ Finished) =>
    /\ Count("Error:") = 1
    /\ Count("final") = 1
    /\ completion = "fulfilled"
    /\ ~ process.exited

\* C1, amended: when the manifest is missing or is not valid JSON, the error
\* of sortDependencies is not caught in complete(): the promise of complete()
\* is rejected, nothing is printed (no "Error:" line, no final message), no
\* child is spawned, the manifest is not written and the host process is not
\* terminated by complete().
C1_ErrorLeavesComplete ==
  (~ file0.readable /\ pc # "start") =>
    /\ pc = "thrown"
    /\ completion = "rejected"
    /\ out = << >>
    /\ calls = << >>
    /\ writes = 0
    /\ file = file0
    /\ ~ process.exited
    /\ ~ ENABLED Next

C1_Witness == ~ file0.readable /\ pc = "thrown" /\ completion = "rejected"

\* C2: when the install command exits with a non-zero code, runCommand has
\* been called exactly once (the lint fix is never spawned), the final
\* message is never printed, and complete() goes on to print the
\* install-failure diagnostic and to end the host process with status 1.
C2_InstallFailureIsFatal ==
  (Len(calls) >= 1 /\ ExitedNonZero(calls[1])) =>
    /\ Truthy(data.autoInstall)
    /\ Len(calls) = 1
    /\ calls[1].args = << "install" >>
    /\ Count("final") = 0
    /\ Count("Error:") = 0
    /\ completion = "pending"
    /\ pc \in { "await_install", "exited" }
    /\ pc = "await_install" => (ENABLED InstallResume /\ ~ process.exited)
    /\ pc = "exited" =>
         /\ process = [exited |-> TRUE, status |-> 1]
         /\ Count("install FAILED") = 1
         /\ out[Len(out) - 2] = InstallFailedLine(data.autoInstall)
         /\ ~ ENABLED Next

C2_Witness ==
  /\ Len(calls) = 1
  /\ calls[1].event = [kind |-> "code", code |-> 2]
  /\ pc = "exited"
  /\ process.status = 1

\* C3: when the install has succeeded and the lint-fix command exits with a
\* non-zero code, the lint-failure diagnostic is printed, the host process is
\* not terminated, no "Error:" line is printed, and the final message is
\* printed before complete() returns normally.
C3_LintFailureIsRecovered ==
  (Len(calls) >= 2 /\ ExitedNonZero(calls[2])) =>
    /\ Len(calls) = 2
    /\ calls[1].promise.state = "fulfilled"
    /\ ~ process.exited
    /\ Count("Error:") = 0
    /\ Count("install FAILED") = 0
    /\ pc \in { "await_lint", "print", "done" }
    /\ pc = "await_lint" => ENABLED LintResume
    /\ pc = "print" => (Count("lint FAILED") = 1 /\ ENABLED PrintMessage)
    /\ pc = "done" =>
         /\ Count("lint FAILED") = 1
         /\ Count("final") = 1
         /\ out[Len(out)].tag = "final"
         /\ completion = "fulfilled"

C3_Witness ==
  /\ Len(calls) = 2
  /\ ExitedZero(calls[1])
  /\ ExitedNonZero(calls[2])
  /\ pc = "done"
  /\ Count("lint FAILED") = 1

\* C4: lintMsg(data) is the non-empty reminder exactly when data.autoInstall
\* is falsy, data.preset.lint is true and data.lintConfig is one of prettier,
\* standard, airbnb; the final message shows the reminder under the same
\* condition.
C4_LintReminder ==
  LET wanted == ~ Truthy(data.autoInstall) /\ data.preset.lint /\ RecognizedStyle
  IN  /\ (lintMsg(data) # "") <=> wanted
      /\ \A m \in Finals : (m.lint # "") <=> wanted

\* C5: with an installer, lint selected and a recognized style, when every
\* child that has exited has exited with code 0: runCommand is called at most
\* twice, the install first and the lint fix only after the install has
\* exited; no failure diagnostic is printed and the host process is not
\* terminated; and when complete() returns it has called runCommand exactly
\* twice and has printed the final message once, with neither reminder.
C5_BothSucceed ==
  ( /\ file0.readable
    /\ Truthy(data.autoInstall) /\ data.preset.lint /\ RecognizedStyle
    /\ \A i \in 1..Len(calls) : calls[i].state = "exited" => ExitedZero(calls[i]) ) =>
    /\ Len(calls) <= 2
    /\ Len(calls) >= 1 =>
         (calls[1].cmd = data.autoInstall /\ calls[1].args = << "install" >>)
    /\ Len(calls) = 2 =>
         /\ calls[1].state = "exited"
         /\ calls[2].cmd = data.autoInstall
         /\ calls[2].args = IF data.autoInstall = "npm"
                            THEN << "run", "lint", "--", "--fix" >>
                            ELSE << "run", "lint", "--fix" >>
    /\ Count("install FAILED") = 0
    /\ Count("lint FAILED") = 0
    /\ Count("Error:") = 0
    /\ ~ process.exited
    /\ Count("final") <= 1
    /\ Finished =>
         /\ pc = "done"
         /\ completion = "fulfilled"
         /\ Len(calls) = 2
         /\ Count("final") = 1
         /\ out[Len(out)] = [tag |-> "final", install |-> "", lint |-> ""]
    /\ (pc # "start" /\ ~ Finished) => ENABLED AfterSort

C5_Witness ==
  /\ data.autoInstall = "npm" /\ data.lintConfig = "standard" /\ data.preset.lint
  /\ Len(calls) = 2
  /\ ExitedZero(calls[1]) /\ ExitedZero(calls[2])
  /\ pc = "done"
  /\ Count("final") = 1

\* C6: with data.autoInstall falsy and a readable manifest, runCommand is
\* never called, the host process is not terminated, and complete() ends by
\* printing the final message with the manual-install reminder; and with an
\* installer configured installMsg(data) is the empty string.
C6_NoInstaller ==
  /\ (~ Truthy(data.autoInstall) /\ file0.readable) =>
       /\ calls = << >>
       /\ ~ process.exited
       /\ Count("starred") = 0
       /\ Finished =>
            /\ pc = "done"
            /\ Count("final") = 1
            /\ out[Len(out)].install # ""
            /\ completion = "fulfilled"
       /\ (pc # "start" /\ ~ Finished) => ENABLED AfterSort
  /\ Truthy(data.autoInstall) =>
       /\ installMsg(data) = ""
       /\ \A m \in Finals : m.install = ""

C6_Witness ==
  /\ ~ Truthy(data.autoInstall)
  /\ data.preset.lint /\ data.lintConfig = "airbnb"
  /\ pc = "done"
  /\ calls = << >>
  /\ Count("final") = 1

\* The keys of a JSON object's members are in strictly ascending order.
Ascending(members) ==
  \A i \in 1..(Len(members) - 1) : LexLess(members[i].key, members[i + 1].key)

\* Two member lists hold the same keys with the same values.
SameMapping(a, b) == { a[i] : i \in 1..Len(a) } = { b[i] : i \in 1..Len(b) }

\* What C7 says of one field: before, as complete() found it, and after.
SortedField(before, after) ==
  /\ after.present = before.present
  /\ before.present =>
       /\ Ascending(after.members)
       /\ SameMapping(before.members, after.members)

\* C7: after sortDependencies, each of dependencies and devDependencies that
\* is present lists its keys in strictly ascending order of string
\* comparison in the file, with the same keys and the same value for every
\* key, nothing else of the manifest changes, and sorting the sorted file
\* again gives the same file.
C7_SortedAscending ==
  (file0.readable /\ pc # "start") =>
    /\ SortedField(file0.dependencies, file.dependencies)
    /\ SortedField(file0.devDependencies, file.devDependencies)
    /\ file.name = file0.name
    /\ file.readable
    /\ FileAfterSort(file) = file

\* sortDependencies changes the order of no key of this file.
NoReorder(f) ==
  /\ ObjectKeys(FileAfterSort(f).dependencies.members) = ObjectKeys(f.dependencies.members)
  /\ ObjectKeys(FileAfterSort(f).devDependencies.members)
       = ObjectKeys(f.devDependencies.members)

\* C8, as the claim states it: a call of sortDependencies that changes no key
\* order writes no file and leaves the file as it was; the manifest is
\* written at most once, before any child is spawned.
C8_WritesOnlyOnReorder ==
  /\ writes <= 1
  /\ pc = "start" => (writes = 0 /\ calls = << >>)
  /\ (file0.readable /\ pc # "start" /\ NoReorder(file0)) => (writes = 0 /\ file = file0)

\* C8, amended: sortDependencies writes the manifest exactly when
\* dependencies or devDependencies is present, whether or not the order of
\* a key changes; with neither present (or an unreadable manifest) it writes
\* nothing and the file stays as it was; the manifest is written at most once,
\* and the write is done before any child is spawned.
C8_WritesWhenFieldPresent ==
  /\ writes <= 1
  /\ pc = "start" => (writes = 0 /\ calls = << >> /\ file = file0)
  /\ (file0.readable /\ pc # "start") =>
       writes = IF file0.dependencies.present \/ file0.devDependencies.present
                THEN 1 ELSE 0
  /\ ~ file0.readable => writes = 0
  /\ writes = 0 => file = file0

C8_Witness ==
  /\ file0.readable
  /\ file0.dependencies.present /\ Len(file0.dependencies.members) = 2
  /\ NoReorder(file0)
  /\ writes = 1
  /\ Len(calls) >= 1

\* C9: the lint fix is spawned if and only if an installer is configured,
\* the install command has terminated successfully, data.preset.lint is true
\* and the style is recognized; it is never spawned while the install child
\* runs, nor after an install that did not succeed.
C9_LintFixOnlyAfterInstall ==
  /\ Len(calls) >= 2 =>
       /\ Truthy(data.autoInstall)
       /\ calls[1].state = "exited"
       /\ ExitedZero(calls[1])
       /\ data.preset.lint
       /\ RecognizedStyle
  /\ ( /\ pc \in { "await_lint", "print", "done" }
       /\ Len(calls) >= 1 /\ ExitedZero(calls[1])
       /\ data.preset.lint /\ RecognizedStyle ) => Len(calls) = 2
  /\ Cardinality({ i \in 1..Len(calls) : calls[i].state = "running" }) <= 1

\* C10: each runCommand settles its outcome exactly once, and only when its
\* child has terminated: success only when the exit code is 0, and otherwise
\* a failure that carries the numeric exit code.
C10_OutcomeFollowsExitCode ==
  \A i \in 1..Len(calls) :
    /\ calls[i].state = "running" => (calls[i].settles = 0 /\ calls[i].promise = Pending)
    /\ calls[i].state = "exited" =>
         /\ calls[i].settles = 1
         /\ calls[i].promise.state = "fulfilled" <=> ExitedZero(calls[i])
         /\ ~ ExitedZero(calls[i]) =>
              /\ calls[i].promise.state = "rejected"
              /\ calls[i].event.kind = "code"
              /\ calls[i].promise.reason = calls[i].event.code

=============================================================================
